---- MODULE Spec2Model ----
(***************************************************************************)
(* A model of the Wordle helper of src/solver.py: the guess parser, the    *)
(* constraint accumulator, the candidate filter and the ranker, and of the *)
(* reload of the word list by the bot of src/main.py.                      *)
(*                                                                         *)
(* A Python str is a sequence of one-character strings; positions are the  *)
(* 0-based positions of the source, so word[i] of the source is word[i+1]  *)
(* here.  A Python dict (and Counter, defaultdict) is a sequence of        *)
(* <<key, value>> pairs in insertion order, which is the order Python      *)
(* iterates it in; Python's == on dicts ignores that order (DictMap).      *)
(* An operation that can raise returns the name of the exception in a      *)
(* status field instead of a value.                                        *)
(***************************************************************************)
EXTENDS Integers, Sequences, FiniteSets, TLC

VARIABLES
    words,      \* solver.words, the loaded word list
    guesses,    \* the (word, feedback) pairs of the requests so far
    result,     \* what the last solver.solve(guesses) returned or raised
    cands,      \* the word list handed to intelligent_scores and rank_words
    scores,     \* what intelligent_scores(cands) returned or raised
    ranked,     \* what rank_words(cands) returned or raised
    line,       \* the line handed to parse_line
    parsed,     \* what parse_line(line) returned or raised
    text,       \* the message text handed to extract_guess_pairs_from_text
    extracted,  \* what extract_guess_pairs_from_text(text) returned or raised
    file,       \* the lines of the word file on disk, without their line ends
    heap,       \* the list objects built for solver.words: heap[o] is list o
    solver,     \* the list object the global solver holds as solver.words
    reload,     \* reload_cmd: its position, the lines read, the list it builds
    readers     \* the handlers reading solver.words: position and words read

reloadVars == <<file, heap, solver, reload, readers>>

vars == <<words, guesses, result, cands, scores, ranked,
          line, parsed, text, extracted, reloadVars>>

(***************************************************************************)
(* Bounds and input pools                                                  *)
(***************************************************************************)
MaxGuesses == 2
MaxRanked == 2
MaxFree == 5
MaxExtra == 1
MaxLines == 3

crane == <<"c", "r", "a", "n", "e">>
heart == <<"h", "e", "a", "r", "t">>
trace == <<"t", "r", "a", "c", "e">>
react == <<"r", "e", "a", "c", "t">>
nacre == <<"n", "a", "c", "r", "e">>
caner == <<"c", "a", "n", "e", "r">>
tenet == <<"t", "e", "n", "e", "t">>
enter == <<"e", "n", "t", "e", "r">>
couch == <<"c", "o", "u", "c", "h">>
eerie == <<"e", "e", "r", "i", "e">>

\* Raw word lists handed to WordleSolver(words): the list of scenario 1, one
\* with entries the constructor drops (upper case, a hyphen, four letters) and
\* a repeated word, and the empty one.
WordFiles ==
    { <<crane, heart, trace, react>>,
      <<tenet, <<"C", "r", "a", "n", "e">>, caner, <<"c", "r", "a", "n">>,
        nacre, crane, <<"c", "r", "a", "-", "n", "e">>, enter, crane>>,
      <<heart, couch, enter, trace>>,
      << >> }

Fb(a, b, c, d, e) == <<a, b, c, d, e>>

\* Guesses a request can hold: the feedback the game gives for crane and tenet
\* against react, trace, heart, enter and crane, the guess of scenario 1,
\* all-Correct rows that contradict each other, and eerie against tenet (three
\* copies of a letter, two of them confirmed).
GuessPool ==
    { <<crane, Fb("G", "B", "B", "B", "B")>>,
      <<crane, Fb("G", "G", "G", "G", "G")>>,
      <<nacre, Fb("G", "G", "G", "G", "G")>>,
      <<crane, Fb("Y", "Y", "G", "B", "Y")>>,
      <<crane, Fb("Y", "G", "G", "B", "G")>>,
      <<crane, Fb("B", "Y", "G", "B", "Y")>>,
      <<tenet, Fb("Y", "Y", "Y", "G", "B")>>,
      <<tenet, Fb("B", "Y", "Y", "B", "B")>>,
      <<tenet, Fb("G", "B", "B", "B", "B")>>,
      <<heart, Fb("B", "Y", "Y", "Y", "Y")>>,
      <<eerie, Fb("Y", "G", "B", "B", "B")>> }

(***************************************************************************)
(* Python values                                                           *)
(***************************************************************************)
\* The characters of the model: the ASCII letters, a letter outside ASCII in
\* both cases, two styled letters NFKC folds to ASCII, the tile emojis (named,
\* one character each), white space, the separators normalize_text turns into
\* a space, and decorations it drops.
LowerSeq ==
    <<"a", "b", "c", "d", "e", "f", "g", "h", "i", "j", "k", "l", "m",
      "n", "o", "p", "q", "r", "s", "t", "u", "v", "w", "x", "y", "z">>
UpperSeq ==
    <<"A", "B", "C", "D", "E", "F", "G", "H", "I", "J", "K", "L", "M",
      "N", "O", "P", "Q", "R", "S", "T", "U", "V", "W", "X", "Y", "Z">>
Range(f) == {f[x] : x \in DOMAIN f}
LowerLetters == Range(LowerSeq) \cup {"e-acute"}
UpperLetters == Range(UpperSeq) \cup {"E-ACUTE"}
AsciiLetters == Range(LowerSeq) \cup Range(UpperSeq)
Styled == ("bold-C" :> "C") @@ ("bold-e" :> "e")

EMOJI_GREEN == "green-square"
EMOJI_YELLOW == "yellow-square"
EMOJI_GRAY == "red-square"
ALT_GRAY == {"black-square", "white-square"}
VALID_FB == {<<"G">>, <<"Y">>, <<"B">>}

\* str.isalpha, str.islower and str.isspace on one character
IsAlpha(ch) == ch \in LowerLetters \cup UpperLetters \cup DOMAIN Styled
IsLower(ch) == ch \in LowerLetters
IsSpace(ch) == ch \in {" ", "\t"}

\* ord() of an ASCII letter
Ord(ch) ==
    IF ch \in Range(UpperSeq)
    THEN 64 + (CHOOSE n \in 1..26 : UpperSeq[n] = ch)
    ELSE 96 + (CHOOSE n \in 1..26 : LowerSeq[n] = ch)

\* str.upper and str.lower on one character
UpperCh(ch) ==
    IF ch \in Range(LowerSeq) THEN UpperSeq[CHOOSE n \in 1..26 : LowerSeq[n] = ch]
    ELSE IF ch = "e-acute" THEN "E-ACUTE"
    ELSE ch
LowerCh(ch) ==
    IF ch \in Range(UpperSeq) THEN LowerSeq[CHOOSE n \in 1..26 : UpperSeq[n] = ch]
    ELSE IF ch = "E-ACUTE" THEN "e-acute"
    ELSE ch
Upper(str) == [n \in 1..Len(str) |-> UpperCh(str[n])]
Lower(str) == [n \in 1..Len(str) |-> LowerCh(str[n])]

\* unicodedata.normalize("NFKC", s)
NFKC(str) ==
    [n \in 1..Len(str) |-> IF str[n] \in DOMAIN Styled THEN Styled[str[n]] ELSE str[n]]

Min(a, b) == IF a < b THEN a ELSE b

\* dict: keys(), `k in d`, d[k], d[k] = v, and the mapping == compares
DictKeys(d) == {d[n][1] : n \in 1..Len(d)}
DictHas(d, k) == \E n \in 1..Len(d) : d[n][1] = k
DictGet(d, k) == d[CHOOSE n \in 1..Len(d) : d[n][1] = k][2]
DictPut(d, k, v) ==
    IF DictHas(d, k)
    THEN [n \in 1..Len(d) |-> IF d[n][1] = k THEN <<k, v>> ELSE d[n]]
    ELSE Append(d, <<k, v>>)
DictMap(d) == [k \in DictKeys(d) |-> DictGet(d, k)]

\* Counter()[k] and defaultdict(set)[k]: a missing key reads as 0 / set()
CounterGet(c, k) == IF DictHas(c, k) THEN DictGet(c, k) ELSE 0
SetGet(d, k) == IF DictHas(d, k) THEN DictGet(d, k) ELSE {}

\* Counter(word): letter -> number of occurrences, keys in order of first use
RECURSIVE Counter(_)
Counter(word) ==
    IF word = << >> THEN << >>
    ELSE LET c == Counter(SubSeq(word, 1, Len(word) - 1))
             ch == word[Len(word)]
         IN  DictPut(c, ch, CounterGet(c, ch) + 1)

(***************************************************************************)
(* accumulate_constraints                                                  *)
(***************************************************************************)
\* Mutant of ScanGuess: a position that has a green letter keeps it.
RECURSIVE ScanGuess_FirstWins(_, _, _, _)
ScanGuess_FirstWins(word, fb, i, st) ==
    IF i >= Min(Len(word), Len(fb)) THEN st
    ELSE LET ch == word[i + 1]
             fl == fb[i + 1]
         IN  IF fl = "G"
             THEN ScanGuess_FirstWins(word, fb, i + 1,
                    [st EXCEPT !.greens = IF DictHas(@, i) THEN @ ELSE DictPut(@, i, ch),
                               !.gy_counts = DictPut(@, ch, CounterGet(@, ch) + 1)])
             ELSE IF fl = "Y"
             THEN ScanGuess_FirstWins(word, fb, i + 1,
                    [st EXCEPT !.yellows_not_pos = DictPut(@, ch, SetGet(@, ch) \cup {i}),
                               !.gy_counts = DictPut(@, ch, CounterGet(@, ch) + 1)])
             ELSE ScanGuess_FirstWins(word, fb, i + 1, st)

\* The inner loop over enumerate(zip(word, fb)), from position i on.
RECURSIVE ScanGuess(_, _, _, _)
ScanGuess(word, fb, i, st) ==
    IF i >= Min(Len(word), Len(fb)) THEN st
    ELSE LET ch == word[i + 1]
             fl == fb[i + 1]
         IN  IF fl = "G"
             THEN ScanGuess(word, fb, i + 1,
                    [st EXCEPT !.greens = DictPut(@, i, ch),
                               !.gy_counts = DictPut(@, ch, CounterGet(@, ch) + 1)])
             ELSE IF fl = "Y"
             THEN ScanGuess(word, fb, i + 1,
                    [st EXCEPT !.yellows_not_pos = DictPut(@, ch, SetGet(@, ch) \cup {i}),
                               !.gy_counts = DictPut(@, ch, CounterGet(@, ch) + 1)])
             ELSE ScanGuess(word, fb, i + 1, st)

\* Mutant of PerGuessHas: a bound only when no copy was marked G/Y.
PerGuessHas_AbsentOnly(r, k) == r = 0 /\ r < k

\* Mutant of PerGuessHas: a bound only when some copy was marked G/Y.
PerGuessHas_SurplusOnly(r, k) == 0 < r /\ r < k

\* A letter guessed k times and marked G/Y r < k times gets the bound r.
PerGuessHas(r, k) == r < k

\* Mutant of per_guess_max: an Absent copy rules the letter out, bound 0.
RECURSIVE per_guess_max_RulesOut(_, _, _)
per_guess_max_RulesOut(gc, gy_counts, n) ==
    IF n > Len(gc) THEN << >>
    ELSE LET l == gc[n][1]
             k == gc[n][2]
             r == CounterGet(gy_counts, l)
             rest == per_guess_max_RulesOut(gc, gy_counts, n + 1)
         IN  IF PerGuessHas(r, k) THEN <<(<<l, 0>>)>> \o rest ELSE rest

\* Mutant of per_guess_max: the bound is the number of copies guessed.
RECURSIVE per_guess_max_GuessedCount(_, _, _)
per_guess_max_GuessedCount(gc, gy_counts, n) ==
    IF n > Len(gc) THEN << >>
    ELSE LET l == gc[n][1]
             k == gc[n][2]
             r == CounterGet(gy_counts, l)
             rest == per_guess_max_GuessedCount(gc, gy_counts, n + 1)
         IN  IF PerGuessHas(r, k) THEN <<(<<l, k>>)>> \o rest ELSE rest

\* per_guess_max: over the items of gc = Counter(word), from item n on.
RECURSIVE per_guess_max(_, _, _)
per_guess_max(gc, gy_counts, n) ==
    IF n > Len(gc) THEN << >>
    ELSE LET l == gc[n][1]
             k == gc[n][2]
             r == CounterGet(gy_counts, l)
             rest == per_guess_max(gc, gy_counts, n + 1)
         IN  IF PerGuessHas(r, k) THEN <<(<<l, r>>)>> \o rest ELSE rest

\* Mutant of MergeMin: the tally of the latest guess replaces the minimum.
RECURSIVE MergeMin_LastWins(_, _, _)
MergeMin_LastWins(global_min, gy_counts, n) ==
    IF n > Len(gy_counts) THEN global_min
    ELSE MergeMin_LastWins(DictPut(global_min, gy_counts[n][1], gy_counts[n][2]),
                           gy_counts, n + 1)

\* Mutant of MergeMin: the tallies of the guesses add up.
RECURSIVE MergeMin_Adds(_, _, _)
MergeMin_Adds(global_min, gy_counts, n) ==
    IF n > Len(gy_counts) THEN global_min
    ELSE LET l == gy_counts[n][1]
             r == gy_counts[n][2]
         IN  MergeMin_Adds(DictPut(global_min, l, CounterGet(global_min, l) + r),
                           gy_counts, n + 1)

\* The merge of one guess's tallies into global_min, from item n on.
RECURSIVE MergeMin(_, _, _)
MergeMin(global_min, gy_counts, n) ==
    IF n > Len(gy_counts) THEN global_min
    ELSE LET l == gy_counts[n][1]
             r == gy_counts[n][2]
         IN  MergeMin(IF r > CounterGet(global_min, l)
                      THEN DictPut(global_min, l, r)
                      ELSE global_min,
                      gy_counts, n + 1)

\* Mutant of MergeMax: the bound of the latest guess replaces the maximum.
RECURSIVE MergeMax_LastWins(_, _, _)
MergeMax_LastWins(global_max_known, pgm, n) ==
    IF n > Len(pgm) THEN global_max_known
    ELSE MergeMax_LastWins(DictPut(global_max_known, pgm[n][1], pgm[n][2]),
                           pgm, n + 1)

\* The merge of one guess's bounds into global_max_known, from item n on.
RECURSIVE MergeMax(_, _, _)
MergeMax(global_max_known, pgm, n) ==
    IF n > Len(pgm) THEN global_max_known
    ELSE LET l == pgm[n][1]
             mx == pgm[n][2]
             old == IF DictHas(global_max_known, l)
                    THEN DictGet(global_max_known, l) ELSE mx
         IN  MergeMax(DictPut(global_max_known, l, Min(old, mx)), pgm, n + 1)

\* Mutant of AccumulateGuess: the position bans start empty at every guess.
AccumulateGuess_FreshBans(acc, word, fb) ==
    LET st == ScanGuess(word, fb, 0,
                [greens |-> acc.greens,
                 yellows_not_pos |-> << >>,
                 gy_counts |-> << >>])
        pgm == per_guess_max(Counter(word), st.gy_counts, 1)
    IN  [greens |-> st.greens,
         yellows_not_pos |-> st.yellows_not_pos,
         min_counts |-> MergeMin(acc.min_counts, st.gy_counts, 1),
         max_counts |-> MergeMax(acc.max_counts, pgm, 1)]

\* One turn of the loop over the guesses.
AccumulateGuess(acc, word, fb) ==
    LET st == ScanGuess(word, fb, 0,
                [greens |-> acc.greens,
                 yellows_not_pos |-> acc.yellows_not_pos,
                 gy_counts |-> << >>])
        pgm == per_guess_max(Counter(word), st.gy_counts, 1)
    IN  [greens |-> st.greens,
         yellows_not_pos |-> st.yellows_not_pos,
         min_counts |-> MergeMin(acc.min_counts, st.gy_counts, 1),
         max_counts |-> MergeMax(acc.max_counts, pgm, 1)]

NoConstraints ==
    [greens |-> << >>, yellows_not_pos |-> << >>,
     min_counts |-> << >>, max_counts |-> << >>]

RECURSIVE accumulate_constraints(_)
accumulate_constraints(gs) ==
    IF gs = << >> THEN NoConstraints
    ELSE LET g == gs[Len(gs)]
         IN  AccumulateGuess(accumulate_constraints(SubSeq(gs, 1, Len(gs) - 1)),
                             g[1], g[2])

(***************************************************************************)
(* word_satisfies: "True", "False", or "IndexError" when word[i] is read   *)
(* past the end of the word before a check has returned False.             *)
(***************************************************************************)
Contains(word, ch) == \E p \in 1..Len(word) : word[p] = ch

\* for i, ch in greens.items(), from item n on: "pass" when the loop ends
RECURSIVE CheckGreens(_, _, _)
CheckGreens(word, greens, n) ==
    IF n > Len(greens) THEN "pass"
    ELSE LET i == greens[n][1]
             ch == greens[n][2]
         IN  IF i >= Len(word) THEN "IndexError"
             ELSE IF word[i + 1] # ch THEN "False"
             ELSE CheckGreens(word, greens, n + 1)

\* for pos in banned, in ascending order (a set of small ints)
RECURSIVE CheckBanned(_, _, _)
CheckBanned(word, ch, banned) ==
    IF banned = {} THEN "pass"
    ELSE LET pos == CHOOSE p \in banned : \A q \in banned : p <= q
         IN  IF pos >= Len(word) THEN "IndexError"
             ELSE IF word[pos + 1] = ch THEN "False"
             ELSE CheckBanned(word, ch, banned \ {pos})

\* for ch, banned in yellows_not_pos.items(), from item n on
RECURSIVE CheckYellows(_, _, _)
CheckYellows(word, yellows_not_pos, n) ==
    IF n > Len(yellows_not_pos) THEN "pass"
    ELSE LET ch == yellows_not_pos[n][1]
             banned == yellows_not_pos[n][2]
         IN  IF ~Contains(word, ch) THEN "False"
             ELSE LET b == CheckBanned(word, ch, banned)
                  IN  IF b # "pass" THEN b
                      ELSE CheckYellows(word, yellows_not_pos, n + 1)

CheckMin(wc, min_counts) ==
    \A n \in 1..Len(min_counts) :
        ~(CounterGet(wc, min_counts[n][1]) < min_counts[n][2])

\* Mutant of CheckMax: a word must stay below the bound.
CheckMax_BelowBound(wc, max_counts) ==
    \A n \in 1..Len(max_counts) :
        ~(CounterGet(wc, max_counts[n][1]) >= max_counts[n][2])

CheckMax(wc, max_counts) ==
    \A n \in 1..Len(max_counts) :
        ~(CounterGet(wc, max_counts[n][1]) > max_counts[n][2])

word_satisfies(word, greens, yellows_not_pos, min_counts, max_counts) ==
    LET g == CheckGreens(word, greens, 1)
        y == CheckYellows(word, yellows_not_pos, 1)
        wc == Counter(word)
    IN  IF g # "pass" THEN g
        ELSE IF y # "pass" THEN y
        ELSE IF ~CheckMin(wc, min_counts) THEN "False"
        ELSE IF ~CheckMax(wc, max_counts) THEN "False"
        ELSE "True"

(***************************************************************************)
(* WordleSolver                                                            *)
(***************************************************************************)
\* Mutant of KeepWord: the length of the word is not tested.
KeepWord_AnyLength(w) ==
    /\ \A p \in 1..Len(w) : IsAlpha(w[p])
    /\ \A p \in 1..Len(w) : IsLower(w[p])

\* The test of the list comprehension of __init__.
KeepWord(w) ==
    /\ Len(w) = 5
    /\ \A p \in 1..Len(w) : IsAlpha(w[p])
    /\ \A p \in 1..Len(w) : IsLower(w[p])

WordleSolver_init(raw) == SelectSeq(raw, KeepWord)

\* The list comprehension of solve, from word n of self.words on: the list
\* built, or the exception word_satisfies raised.
RECURSIVE FilterWords(_, _, _)
FilterWords(ws, c, n) ==
    IF n > Len(ws) THEN [status |-> "ok", candidates |-> << >>]
    ELSE LET sat == word_satisfies(ws[n], c.greens, c.yellows_not_pos,
                                   c.min_counts, c.max_counts)
             rest == FilterWords(ws, c, n + 1)
         IN  IF sat = "IndexError" THEN [status |-> "IndexError", candidates |-> << >>]
             ELSE IF rest.status # "ok" THEN rest
             ELSE IF sat = "True"
             THEN [status |-> "ok", candidates |-> <<ws[n]>> \o rest.candidates]
             ELSE rest

solve(ws, gs) ==
    LET c == accumulate_constraints(gs)
        f == FilterWords(ws, c, 1)
    IN  IF f.status # "ok" THEN [status |-> f.status]
        ELSE [status |-> "ok",
              greens |-> c.greens,
              yellows_not_pos |-> c.yellows_not_pos,
              min_counts |-> c.min_counts,
              max_counts |-> c.max_counts,
              candidates |-> f.candidates]

(***************************************************************************)
(* positional_frequencies, intelligent_scores, rank_words                  *)
(***************************************************************************)
RECURSIVE SumSeq(_)
SumSeq(s) == IF s = << >> THEN 0 ELSE s[1] + SumSeq(Tail(s))

RECURSIVE Flatten(_)
Flatten(ws) == IF ws = << >> THEN << >> ELSE ws[1] \o Flatten(Tail(ws))

\* The letters the loops of positional_frequencies visit at position i.
Column(ws, i) ==
    LET long == SelectSeq(ws, LAMBDA w : Len(w) > i)
    IN  [n \in 1..Len(long) |-> long[n][i + 1]]

\* pos_freq has range(5) counters: a sixth letter raises IndexError.
positional_frequencies(ws) ==
    IF \E n \in 1..Len(ws) : Len(ws[n]) > 5
    THEN [status |-> "IndexError"]
    ELSE [status |-> "ok",
          pos_freq |-> [i \in 0..4 |-> Counter(Column(ws, i))],
          global_freq |-> Counter(Flatten(ws))]

Vowels == {"a", "e", "i", "o", "u"}
VowelWeight == 50
DuplicateWeight == 100

\* Mutant of Uniq: repeated letters are kept.
Uniq_KeepsRepeats(w) == w

\* list(dict.fromkeys(w)): the letters of w, each once, in order of first use
Uniq(w) == LET c == Counter(w) IN [n \in 1..Len(c) |-> c[n][1]]

\* The score the loop body of intelligent_scores gives w.
ScoreOf(w, f) ==
    LET uniq == Uniq(w)
        pos_score == SumSeq([p \in 1..Len(w) |-> CounterGet(f.pos_freq[p - 1], w[p])])
        cov_score == SumSeq([n \in 1..Len(uniq) |-> CounterGet(f.global_freq, uniq[n])])
        vowel_bonus == Cardinality({n \in 1..Len(uniq) : uniq[n] \in Vowels}) * VowelWeight
        dup_pen == (Len(w) - Len(uniq)) * DuplicateWeight
    IN  pos_score + cov_score + vowel_bonus - dup_pen

\* scores[w] = ... for w in cands, from word n on.
RECURSIVE FillScores(_, _, _, _)
FillScores(ws, f, n, sc) ==
    IF n > Len(ws) THEN sc
    ELSE FillScores(ws, f, n + 1, DictPut(sc, ws[n], ScoreOf(ws[n], f)))

intelligent_scores(ws) ==
    LET f == positional_frequencies(ws)
    IN  IF f.status # "ok" THEN [status |-> f.status]
        ELSE [status |-> "ok", scores |-> FillScores(ws, f, 1, << >>)]

\* a < b on str
RECURSIVE StrLess(_, _)
StrLess(a, b) ==
    IF b = << >> THEN FALSE
    ELSE IF a = << >> THEN TRUE
    ELSE IF a[1] # b[1] THEN Ord(a[1]) < Ord(b[1])
    ELSE StrLess(Tail(a), Tail(b))

\* The index the sort key reads of each (word, score) tuple.
KeyIndex == 5

\* key=lambda x: (-x[KeyIndex], x) on the tuple x = (w, score): x[0] is a str
\* and has no negative, an index past the tuple raises.
SortKey(x) ==
    IF KeyIndex >= Len(x) THEN [status |-> "IndexError"]
    ELSE IF KeyIndex = 0 THEN [status |-> "TypeError"]
    ELSE [status |-> "ok", neg |-> 0 - x[KeyIndex + 1], item |-> x]

\* k1 < k2 on the keys (-score, (w, score))
KeyLess(k1, k2) ==
    \/ k1.neg < k2.neg
    \/ /\ k1.neg = k2.neg
       /\ \/ StrLess(k1.item[1], k2.item[1])
          \/ k1.item[1] = k2.item[1] /\ k1.item[2] < k2.item[2]

\* sorted(): stable, x goes behind every item whose key is not greater
RECURSIVE InsertSorted(_, _)
InsertSorted(done, x) ==
    IF done = << >> THEN <<x>>
    ELSE IF KeyLess(SortKey(x), SortKey(done[1])) THEN <<x>> \o done
    ELSE <<done[1]>> \o InsertSorted(Tail(done), x)

RECURSIVE Sorted(_)
Sorted(items) ==
    IF items = << >> THEN << >>
    ELSE InsertSorted(Sorted(SubSeq(items, 1, Len(items) - 1)), items[Len(items)])

\* Mutant of rank_words: an empty input returns no list (a bare return).
rank_words_NoneOnEmpty(ws) ==
    IF ws = << >> THEN [status |-> "ok"]
    ELSE [status |-> "IndexError"]

rank_words(ws) ==
    IF ws = << >> THEN [status |-> "ok", value |-> << >>]
    ELSE LET sc == intelligent_scores(ws)
             items == [n \in 1..Len(ws) |-> <<ws[n], DictGet(sc.scores, ws[n])>>]
         IN  IF sc.status # "ok" THEN [status |-> sc.status]
             ELSE IF \E n \in 1..Len(items) : SortKey(items[n]).status # "ok"
             THEN [status |-> SortKey(items[1]).status]
             ELSE [status |-> "ok", value |-> Sorted(items)]

(***************************************************************************)
(* normalize_text, strip_to_ascii_letters, parse_line,                     *)
(* extract_guess_pairs_from_text                                           *)
(***************************************************************************)
Tiles == {EMOJI_GREEN, EMOJI_YELLOW, EMOJI_GRAY}

\* None where a (word, feedback) pair is expected: the only falsy value there
None == << >>

\* What the loop of normalize_text appends for one character.
CleanCh(ch) ==
    IF ch \in Tiles THEN <<ch>>
    ELSE IF IsAlpha(ch) \/ IsSpace(ch) THEN <<ch>>
    ELSE IF ch \in {"-", "_", "'"} THEN <<" ">>
    ELSE << >>

RECURSIVE Cleaned(_)
Cleaned(str) == IF str = << >> THEN << >> ELSE CleanCh(str[1]) \o Cleaned(Tail(str))

normalize_text(str) ==
    LET n == NFKC(str)
        g == [p \in 1..Len(n) |-> IF n[p] \in ALT_GRAY THEN EMOJI_GRAY ELSE n[p]]
    IN  Cleaned(g)

strip_to_ascii_letters(word) ==
    Lower(SelectSeq(NFKC(word), IsAlpha))

\* str.strip()
RECURSIVE LStrip(_)
LStrip(str) ==
    IF str # << >> /\ IsSpace(str[1]) THEN LStrip(Tail(str)) ELSE str
RECURSIVE RStrip(_)
RStrip(str) ==
    IF str # << >> /\ IsSpace(str[Len(str)])
    THEN RStrip(SubSeq(str, 1, Len(str) - 1)) ELSE str
Strip(str) == RStrip(LStrip(str))

\* str.split(): the maximal runs of characters that are not white space
RECURSIVE SplitFrom(_, _)
SplitFrom(str, cur) ==
    IF str = << >> THEN (IF cur = << >> THEN << >> ELSE <<cur>>)
    ELSE IF IsSpace(str[1])
    THEN (IF cur = << >> THEN << >> ELSE <<cur>>) \o SplitFrom(Tail(str), << >>)
    ELSE SplitFrom(Tail(str), Append(cur, str[1]))
Split(str) == SplitFrom(str, << >>)

\* The ways ^([tiles\s]{5,})\s+([A-Za-z\s]{3,})$ matches str: group 1 is
\* str[1..j], the white space str[j+1..k], group 2 the rest.
TileSplits(str) ==
    {jk \in (5..Len(str)) \X (6..Len(str)) :
        /\ jk[1] < jk[2]
        /\ Len(str) - jk[2] >= 3
        /\ \A p \in 1..jk[1] : str[p] \in Tiles \/ IsSpace(str[p])
        /\ \A p \in (jk[1] + 1)..jk[2] : IsSpace(str[p])
        /\ \A p \in (jk[2] + 1)..Len(str) : str[p] \in AsciiLetters \/ IsSpace(str[p])}

\* re.match: both groups are greedy, so the match found has the longest
\* group 1 and then the longest white space.
TileMatch(str) ==
    LET all == TileSplits(str)
        j == CHOOSE x \in {jk[1] : jk \in all} : \A jk \in all : jk[1] <= x
        k == CHOOSE x \in {jk[2] : jk \in {y \in all : y[1] = j}} :
                 \A jk \in all : jk[1] = j => jk[2] <= x
    IN  [tiles_raw |-> SubSeq(str, 1, j), word_raw |-> SubSeq(str, k + 1, Len(str))]

TileLetter_YellowAbsent(ch) ==
    IF ch = EMOJI_GREEN THEN "G" ELSE "B"

TileLetter(ch) ==
    IF ch = EMOJI_GREEN THEN "G" ELSE IF ch = EMOJI_YELLOW THEN "Y" ELSE "B"

\* The emoji branch of parse_line: the pair it returns, or None.
ParseTiles(str) ==
    IF TileSplits(str) = {} THEN None
    ELSE LET m == TileMatch(str)
             tiles == SelectSeq(m.tiles_raw, LAMBDA ch : ch \in Tiles)
             word == strip_to_ascii_letters(m.word_raw)
         IN  IF Len(tiles) = 5 /\ Len(word) = 5
             THEN <<word, [n \in 1..5 |-> TileLetter(tiles[n])]>>
             ELSE None

\* The 'G Y B B Y WORD' branch of parse_line: the pair it returns, or None.
ParseSpaced(toks) ==
    IF Len(toks) >= 6 /\ \A n \in 1..5 : Upper(toks[n]) \in VALID_FB
    THEN LET word == strip_to_ascii_letters(toks[4 + 1])
         IN  IF Len(word) = 5
             THEN <<word, Flatten([n \in 1..5 |-> Upper(toks[n])])>>
             ELSE None
    ELSE None

\* parse_line: [status |-> "ok", value |-> the pair or None], or the
\* exception.  With exactly 5 tokens the 'GYBBY WORD' test reaches
\* toks.upper(), and a list has no upper.
parse_line(raw) ==
    LET str == Strip(normalize_text(raw))
        t == IF str = << >> THEN None ELSE ParseTiles(str)
        toks == Split(str)
    IN  IF str = << >> THEN [status |-> "ok", value |-> None]
        ELSE IF t # None THEN [status |-> "ok", value |-> t]
        ELSE IF Len(toks) >= 2 /\ Len(toks) = 5 THEN [status |-> "AttributeError"]
        ELSE [status |-> "ok", value |-> ParseSpaced(toks)]

\* str.splitlines(): the lines between the line breaks, no empty last line
RECURSIVE SplitLinesFrom(_, _)
SplitLinesFrom(txt, cur) ==
    IF txt = << >> THEN (IF cur = << >> THEN << >> ELSE <<cur>>)
    ELSE IF txt[1] = "\n" THEN <<cur>> \o SplitLinesFrom(Tail(txt), << >>)
    ELSE SplitLinesFrom(Tail(txt), Append(cur, txt[1]))
SplitLines(txt) == SplitLinesFrom(txt, << >>)

\* The loop of extract_guess_pairs_from_text, from line n on.
RECURSIVE ExtractFrom(_, _, _)
ExtractFrom(lines, n, pairs) ==
    IF n > Len(lines) THEN [status |-> "ok", value |-> pairs]
    ELSE LET p == parse_line(lines[n])
         IN  IF p.status # "ok" THEN [status |-> p.status]
             ELSE ExtractFrom(lines, n + 1,
                              IF p.value # None THEN Append(pairs, p.value) ELSE pairs)

extract_guess_pairs_from_text(txt) ==
    LET r == ExtractFrom(SplitLines(txt), 1, << >>)
    IN  IF r.status # "ok" THEN r
        ELSE IF r.value = << >> THEN [status |-> "ValueError"]
        ELSE r

(***************************************************************************)
(* The solver as a state machine: it is built from a word file, and each   *)
(* request carries the guesses so far plus one more and is solved afresh.  *)
(***************************************************************************)
NotCalled == [status |-> "none"]

SolverIdle == words = << >> /\ guesses = << >> /\ result = NotCalled
RankerIdle == cands = << >> /\ scores = NotCalled /\ ranked = NotCalled
ParserIdle ==
    /\ line = << >> /\ parsed = NotCalled
    /\ text = << >> /\ extracted = NotCalled
ReloadIdle ==
    /\ file = << >> /\ heap = << >> /\ solver = 0
    /\ reload = [pc |-> "none", raw |-> << >>, n |-> 0, obj |-> 0]
    /\ readers = << >>

Init ==
    /\ \E raw \in WordFiles : words = WordleSolver_init(raw)
    /\ guesses = << >>
    /\ result = NotCalled
    /\ RankerIdle
    /\ ParserIdle
    /\ ReloadIdle

Solve(g) ==
    /\ Len(guesses) < MaxGuesses
    /\ guesses' = Append(guesses, g)
    /\ result' = solve(words, guesses')
    /\ UNCHANGED <<words, cands, scores, ranked, line, parsed, text, extracted,
                   reloadVars>>

Next == \E g \in GuessPool : Solve(g)

Spec == Init /\ [][Next]_vars

(***************************************************************************)
(* The ranker: a word list is scored and ranked.                           *)
(***************************************************************************)
RankPool == {crane, heart, trace, react, nacre, tenet, enter, couch}

RankInputs ==
    UNION {[1..n -> RankPool] : n \in 0..MaxRanked}

InitRank ==
    /\ SolverIdle
    /\ ParserIdle
    /\ ReloadIdle
    /\ cands \in RankInputs
    /\ scores = NotCalled
    /\ ranked = NotCalled

Score ==
    /\ scores = NotCalled
    /\ scores' = intelligent_scores(cands)
    /\ UNCHANGED <<words, guesses, result, cands, ranked,
                   line, parsed, text, extracted, reloadVars>>

Rank ==
    /\ ranked = NotCalled
    /\ ranked' = rank_words(cands)
    /\ UNCHANGED <<words, guesses, result, cands, scores,
                   line, parsed, text, extracted, reloadVars>>

NextRank == Score \/ Rank

SpecRank == InitRank /\ [][NextRank]_vars

(***************************************************************************)
(* The line parser: one line is parsed.                                    *)
(***************************************************************************)
\* The sequences of at most n elements of S.
SeqsUpTo(S, n) == UNION {[1..m -> S] : m \in 0..n}

\* sep.join(strs)
RECURSIVE Join(_, _)
Join(strs, sep) ==
    IF strs = << >> THEN << >>
    ELSE IF Len(strs) = 1 THEN strs[1]
    ELSE strs[1] \o sep \o Join(Tail(strs), sep)

Each(str) == [n \in 1..Len(str) |-> <<str[n]>>]

FbCodes ==
    { <<"G", "Y", "B", "B", "Y">>, <<"g", "y", "b", "b", "y">>,
      <<"B", "y", "G", "b", "Y">> }

\* Word tokens: five letters in either case, five letters and a decoration,
\* styled letters, and tokens that do not strip to five letters.
WordTokens ==
    { <<"C", "R", "A", "N", "E">>, <<"a", "u", "d", "i", "o">>,
      <<"H", "e", "a", "r", "t", "!">>, <<"bold-C", "r", "a", "n", "bold-e">>,
      <<"a", "t">>, <<"h", "e", "a", "r", "t", "s">> }

GRN == EMOJI_GREEN
YLW == EMOJI_YELLOW
RED == EMOJI_GRAY

\* Tile runs: five tiles, with gray variants, with white space and a
\* decoration among them, and runs of four and six tiles.
TileRuns ==
    { <<GRN, YLW, RED, RED, YLW>>,
      <<"black-square", YLW, "white-square", GRN, RED>>,
      <<GRN, " ", YLW, " ", RED, " ", RED, " ", YLW>>,
      <<GRN, YLW, "blue-square", RED, RED, YLW>>,
      <<GRN, YLW, RED, RED>>,
      <<GRN, YLW, " ", RED, RED>>,
      <<GRN, YLW, RED, RED, YLW, GRN>> }

TileWords == WordTokens \cup { <<"h", " ", "e", " ", "a", " ", "r", " ", "t">>,
                               <<"h", "e", "-", "a", "r", "t">>,
                               <<"c", "a", "f", "e-acute", "s">> }

FreeTokens == { <<"a">>, <<"n", "o", "t">>, <<"G", "Y", "B", "B", "Y">>,
                <<"C", "R", "A", "N", "E">> }
ExtraTokens == { <<"x">>, <<"C", "R", "A", "N", "E">> }

CompactLines == {Join(<<f, w>>, <<" ">>) : f \in FbCodes, w \in WordTokens}
SpacedLines ==
    {Join(Each(f) \o <<w>> \o x, <<" ">>) :
        f \in FbCodes, w \in WordTokens, x \in SeqsUpTo(ExtraTokens, MaxExtra)}
TileLines ==
    {Join(<<t, w>>, sep) : t \in TileRuns, w \in TileWords, sep \in {<<" ">>, <<" ", " ">>}}
FreeLines == {Join(ts, <<" ">>) : ts \in SeqsUpTo(FreeTokens, MaxFree)}
NotAGuessAtAll ==
    <<"n", "o", "t", " ", "a", " ", "g", "u", "e", "s", "s", " ", "a", "t", " ",
      "a", "l", "l">>

LinePool ==
    CompactLines \cup SpacedLines \cup TileLines \cup FreeLines \cup {NotAGuessAtAll}

InitLine ==
    /\ SolverIdle
    /\ RankerIdle
    /\ ReloadIdle
    /\ line \in LinePool
    /\ parsed = NotCalled
    /\ text = << >>
    /\ extracted = NotCalled

ParseLine ==
    /\ parsed = NotCalled
    /\ parsed' = parse_line(line)
    /\ UNCHANGED <<words, guesses, result, cands, scores, ranked,
                   line, text, extracted, reloadVars>>

NextLine == ParseLine

SpecLine == InitLine /\ [][NextLine]_vars

(***************************************************************************)
(* The text extractor: one message of several lines is parsed.             *)
(***************************************************************************)
TextLines ==
    { << >>,
      NotAGuessAtAll,
      <<"n", "i", "c", "e", " ", "o", "n", "e">>,
      <<"w", "o", "w", " ", GRN>>,
      <<"G", "Y", "B", "B", "Y", " ", "C", "R", "A", "N", "E">>,
      <<GRN, YLW, RED, RED, YLW, " ", "H", "E", "A", "R", "T">>,
      <<"black-square", YLW, GRN, "white-square", RED, " ", "c", "r", "a", "n", "e">> }

Texts == {Join(ls, <<"\n">>) : ls \in SeqsUpTo(TextLines, MaxLines)}

InitText ==
    /\ SolverIdle
    /\ RankerIdle
    /\ ReloadIdle
    /\ line = << >>
    /\ parsed = NotCalled
    /\ text \in Texts
    /\ extracted = NotCalled

Extract ==
    /\ extracted = NotCalled
    /\ extracted' = extract_guess_pairs_from_text(text)
    /\ UNCHANGED <<words, guesses, result, cands, scores, ranked,
                   line, parsed, text, reloadVars>>

NextText == Extract

SpecText == InitText /\ [][NextText]_vars

(***************************************************************************)
(* Reload: reload_cmd builds a solver from the word file and rebinds the   *)
(* global solver while other handlers read solver.words.  The steps are    *)
(* the interpreter's, one per word the list comprehension of __init__      *)
(* tests and one per word a reader iterates over, so that every schedule   *)
(* of the handlers, at await points or finer, is a behaviour.              *)
(***************************************************************************)
MaxReloads == 2
Readers == {1, 2}

Padded(w) == <<" ">> \o w \o <<" ", "\t">>

\* Word files: a clean one, one with padded, blank, upper-case and hyphenated
\* lines, and a shorter clean one.
FilePool ==
    { <<crane, heart, trace>>,
      <<Padded(tenet), <<"C", "R", "A", "N", "E">>, << >>, caner,
        <<"c", "r", "a", "-", "n", "e">>>>,
      <<heart, couch>> }

\* The list comprehension of from_file: the lines stripped, the blank ones
\* dropped.
ReadLines(f) ==
    SelectSeq([n \in 1..Len(f) |-> Strip(f[n])], LAMBDA ln : ln # << >>)

\* WordleSolver.sanitize_word_list, which wstats_cmd calls: each raw line
\* with its non-alphabetic characters stripped after Unicode normalisation
\* and lower-cased, kept if the result has five letters.
sanitize_word_list(raw) ==
    SelectSeq([n \in 1..Len(raw) |-> strip_to_ascii_letters(raw[n])],
              LAMBDA w : Len(w) = 5)

ReaderIdle == [pc |-> "idle", obj |-> 0, n |-> 0, seen |-> << >>, old |-> << >>]

InitReload ==
    /\ SolverIdle
    /\ RankerIdle
    /\ ParserIdle
    /\ file \in FilePool
    /\ heap = <<WordleSolver_init(ReadLines(file))>>
    /\ solver = 1
    /\ reload = [pc |-> "idle", raw |-> ReadLines(file),
                 n |-> Len(ReadLines(file)) + 1, obj |-> 1]
    /\ readers = [r \in Readers |-> ReaderIdle]

\* The word file is replaced on disk.
EditFile(f) ==
    /\ file # f
    /\ file' = f
    /\ UNCHANGED <<words, guesses, result, cands, scores, ranked,
                   line, parsed, text, extracted, heap, solver, reload, readers>>

\* Mutant of ReloadOpen: the list the solver holds is emptied and refilled.
ReloadOpen_InPlace ==
    /\ reload.pc = "idle"
    /\ Len(heap) <= MaxReloads
    /\ heap' = [heap EXCEPT ![solver] = << >>]
    /\ reload' = [pc |-> "filter", raw |-> ReadLines(file), n |-> 1,
                  obj |-> solver]
    /\ UNCHANGED <<words, guesses, result, cands, scores, ranked,
                   line, parsed, text, extracted, file, solver, readers>>

\* reload_cmd calls from_file: the lines are read and __init__ starts its
\* list comprehension on a new, empty list.
ReloadOpen ==
    /\ reload.pc = "idle"
    /\ Len(heap) <= MaxReloads
    /\ heap' = Append(heap, << >>)
    /\ reload' = [pc |-> "filter", raw |-> ReadLines(file), n |-> 1,
                  obj |-> Len(heap) + 1]
    /\ UNCHANGED <<words, guesses, result, cands, scores, ranked,
                   line, parsed, text, extracted, file, solver, readers>>

\* One turn of the list comprehension of __init__.
ReloadFilter ==
    /\ reload.pc = "filter"
    /\ reload.n <= Len(reload.raw)
    /\ heap' = IF KeepWord(reload.raw[reload.n])
               THEN [heap EXCEPT ![reload.obj] = Append(@, reload.raw[reload.n])]
               ELSE heap
    /\ reload' = [reload EXCEPT !.n = @ + 1]
    /\ UNCHANGED <<words, guesses, result, cands, scores, ranked,
                   line, parsed, text, extracted, file, solver, readers>>

\* The list is complete: self.words = ..., and solver = the new object.
ReloadBind ==
    /\ reload.pc = "filter"
    /\ reload.n > Len(reload.raw)
    /\ solver' = reload.obj
    /\ reload' = [reload EXCEPT !.pc = "idle"]
    /\ UNCHANGED <<words, guesses, result, cands, scores, ranked,
                   line, parsed, text, extracted, file, heap, readers>>

\* A handler evaluates solver.words and starts to iterate over the list;
\* old is the list as it is at that moment.
ReadStart(r) ==
    /\ readers[r].pc = "idle"
    /\ readers' = [readers EXCEPT ![r] =
                       [pc |-> "iter", obj |-> solver, n |-> 1,
                        seen |-> << >>, old |-> heap[solver]]]
    /\ UNCHANGED <<words, guesses, result, cands, scores, ranked,
                   line, parsed, text, extracted, file, heap, solver, reload>>

\* One turn of the iteration: the next word of the list, or its end.
ReadNext(r) ==
    LET me == readers[r]
    IN  /\ me.pc = "iter"
        /\ readers' = [readers EXCEPT ![r] =
                           IF me.n <= Len(heap[me.obj])
                           THEN [me EXCEPT !.seen = Append(@, heap[me.obj][me.n]),
                                           !.n = @ + 1]
                           ELSE [me EXCEPT !.pc = "done"]]
        /\ UNCHANGED <<words, guesses, result, cands, scores, ranked,
                       line, parsed, text, extracted, file, heap, solver, reload>>

\* The handler is done with the words it read.
ReadReturn(r) ==
    /\ readers[r].pc = "done"
    /\ readers' = [readers EXCEPT ![r] = ReaderIdle]
    /\ UNCHANGED <<words, guesses, result, cands, scores, ranked,
                   line, parsed, text, extracted, file, heap, solver, reload>>

NextReload ==
    \/ \E f \in FilePool : EditFile(f)
    \/ ReloadOpen
    \/ ReloadFilter
    \/ ReloadBind
    \/ \E r \in Readers : ReadStart(r)
    \/ \E r \in Readers : ReadNext(r)
    \/ \E r \in Readers : ReadReturn(r)

SpecReload == InitReload /\ [][NextReload]_vars

(***************************************************************************)
(* Claims about solve, checked under Spec                                  *)
(***************************************************************************)
Solved == result # NotCalled

\* The sub-sequence of ws, in order, of the words the filter accepts.
Retained(ws, r) ==
    SelectSeq(ws, LAMBDA w :
        word_satisfies(w, r.greens, r.yellows_not_pos,
                       r.min_counts, r.max_counts) = "True")

SameConstraints(a, b) ==
    /\ DictMap(a.greens) = DictMap(b.greens)
    /\ DictMap(a.yellows_not_pos) = DictMap(b.yellows_not_pos)
    /\ DictMap(a.min_counts) = DictMap(b.min_counts)
    /\ DictMap(a.max_counts) = DictMap(b.max_counts)

\* C1: every call of solve returns normally, with the constraints accumulated
\* from the guesses and, as candidates, exactly the words of the word list
\* that pass the filter against them, in word-list order (possibly none).
C1_SolveNeverFails ==
    Solved =>
        /\ result.status = "ok"
        /\ SameConstraints(result, accumulate_constraints(guesses))
        /\ result.candidates = Retained(words, result)

\* C1 witness: contradictory guesses were solved on a non-empty word list and
\* an empty candidates list came back as a value.
C1_Witness ==
    /\ result.status = "ok"
    /\ Len(words) > 0
    /\ Len(guesses) = 2
    /\ guesses[1] = <<crane, Fb("G", "G", "G", "G", "G")>>
    /\ guesses[2] = <<nacre, Fb("G", "G", "G", "G", "G")>>
    /\ result.candidates = << >>

\* A single guess marked Correct at position 0 and Absent at positions 1-4.
FirstOnly == Fb("G", "B", "B", "B", "B")
IsFirstOnlyState ==
    /\ result.status = "ok"
    /\ Len(guesses) = 1
    /\ guesses[1][2] = FirstOnly

\* C2 as stated: after such a guess greens is {0: first letter} and the
\* candidates are exactly the words of the list starting with that letter.
C2_Original ==
    IsFirstOnlyState =>
        /\ DictMap(result.greens) = (0 :> guesses[1][1][1])
        /\ result.candidates =
               SelectSeq(words, LAMBDA w : w[1] = guesses[1][1][1])

\* C2 amended: after such a guess greens is {0: first letter} and the
\* candidates are exactly the words of the list that start with that letter
\* and hold none of the guess's letters of positions 1-4 at positions 1-4.
C2_FirstOnlyCandidates ==
    IsFirstOnlyState =>
        /\ DictMap(result.greens) = (0 :> guesses[1][1][1])
        /\ result.candidates =
               SelectSeq(words, LAMBDA w :
                   /\ w[1] = guesses[1][1][1]
                   /\ \A q \in 2..5 : \A p \in 2..5 : w[q] # guesses[1][1][p])

\* C2 witness: scenario 1 was solved; no word of its list survives, crane
\* itself holding the Absent letters.
C2_Witness ==
    /\ IsFirstOnlyState
    /\ guesses[1][1] = crane
    /\ words = <<crane, heart, trace, react>>
    /\ result.candidates = << >>

\* The guesses in the order p, a permutation of 1..Len(gs).
Permuted(gs, p) == [n \in 1..Len(gs) |-> gs[p[n]]]

\* C5 as stated: every permutation of the guesses accumulates to identical
\* greens, yellow bans, min counts and max counts.
C5_Original ==
    Solved =>
        \A p \in Permutations(1..Len(guesses)) :
            SameConstraints(accumulate_constraints(Permuted(guesses, p)), result)

\* Two guesses mark different letters Correct at one position.
GreenConflict(gs) ==
    \E m, n \in 1..Len(gs) : \E i \in 1..5 :
        /\ gs[m][2][i] = "G"
        /\ gs[n][2][i] = "G"
        /\ gs[m][1][i] # gs[n][1][i]

\* C5 amended: every permutation of the guesses accumulates to identical
\* yellow bans, min counts and max counts, and to identical greens unless two
\* guesses mark different letters Correct at the same position.
C5_OrderInsensitive ==
    Solved =>
        \A p \in Permutations(1..Len(guesses)) :
            LET c == accumulate_constraints(Permuted(guesses, p))
            IN  /\ DictMap(c.yellows_not_pos) = DictMap(result.yellows_not_pos)
                /\ DictMap(c.min_counts) = DictMap(result.min_counts)
                /\ DictMap(c.max_counts) = DictMap(result.max_counts)
                /\ ~GreenConflict(guesses) =>
                       DictMap(c.greens) = DictMap(result.greens)

\* C5 witness: two guesses with different tallies and bounds for the same
\* letters, and no conflicting greens, were accumulated.
C5_Witness ==
    /\ result.status = "ok"
    /\ Len(guesses) = 2
    /\ guesses[1] = <<tenet, Fb("Y", "Y", "Y", "G", "B")>>
    /\ guesses[2] = <<crane, Fb("B", "Y", "G", "B", "Y")>>
    /\ ~GreenConflict(guesses)
    /\ DictKeys(result.max_counts) # {}

Front(s) == SubSeq(s, 1, Len(s) - 1)

\* C6 as stated: solving G followed by g never returns more candidates than
\* solving G alone.
C6_Original ==
    (result.status = "ok" /\ Len(guesses) >= 1) =>
        Len(result.candidates) <= Len(solve(words, Front(guesses)).candidates)

\* The last guess marks a position Correct with a letter other than the one
\* greens holds for that position after the guesses before it.
OverwritesGreen(gs) ==
    LET before == accumulate_constraints(Front(gs))
        g == gs[Len(gs)]
    IN  \E i \in 0..4 :
            /\ g[2][i + 1] = "G"
            /\ DictHas(before.greens, i)
            /\ DictGet(before.greens, i) # g[1][i + 1]

\* C6 amended: solving G followed by g never returns more candidates than
\* solving G alone, provided g marks no position Correct with a letter other
\* than the one greens holds for that position after G.
C6_AntiMonotonic ==
    (result.status = "ok" /\ Len(guesses) >= 1 /\ ~OverwritesGreen(guesses)) =>
        Len(result.candidates) <= Len(solve(words, Front(guesses)).candidates)

\* C6 witness: a further guess without a conflicting green cut a non-empty
\* candidates list down.
C6_Witness ==
    /\ result.status = "ok"
    /\ Len(guesses) = 2
    /\ ~OverwritesGreen(guesses)
    /\ Len(result.candidates) >= 1
    /\ Len(result.candidates) < Len(solve(words, Front(guesses)).candidates)

\* The copies of letter l in word, and those of them marked Correct/Present.
Copies(word, l) == Cardinality({p \in 1..Len(word) : word[p] = l})
Confirmed(word, fb, l) ==
    Cardinality({p \in 1..Len(word) : word[p] = l /\ fb[p] \in {"G", "Y"}})

HasCount(d, l, v) == DictHas(d, l) /\ DictGet(d, l) = v

\* C14: after a single guess, every letter with k copies in the guess of
\* which r are marked Correct/Present, 0 < r < k, has min count r and max
\* count r.
C14_DuplicateLetters ==
    (result.status = "ok" /\ Len(guesses) = 1) =>
        \A l \in Range(guesses[1][1]) :
            LET k == Copies(guesses[1][1], l)
                r == Confirmed(guesses[1][1], guesses[1][2], l)
            IN  (0 < r /\ r < k) =>
                    /\ HasCount(result.min_counts, l, r)
                    /\ HasCount(result.max_counts, l, r)

\* C14 witness: a guess with two copies of t marked Correct, Absent was
\* accumulated.
C14_Witness ==
    /\ result.status = "ok"
    /\ Len(guesses) = 1
    /\ guesses[1] = <<tenet, Fb("G", "B", "B", "B", "B")>>
    /\ HasCount(result.min_counts, "t", 1)
    /\ HasCount(result.max_counts, "t", 1)

\* Guess g holds a copy of letter l marked Correct/Present, or one not so
\* marked (Absent).
HasConfirmed(g, l) == \E p \in 1..5 : g[1][p] = l /\ g[2][p] \in {"G", "Y"}
HasAbsent(g, l) == \E p \in 1..5 : g[1][p] = l /\ g[2][p] \notin {"G", "Y"}

\* Two guesses that both hold letter s once, the first marking it Absent and
\* the second marking it Correct at a different position.
AbsentThenCorrect(gs, s) ==
    /\ Len(gs) = 2
    /\ Copies(gs[1][1], s) = 1
    /\ Copies(gs[2][1], s) = 1
    /\ \E p, q \in 1..5 :
           /\ p # q
           /\ gs[1][1][p] = s /\ gs[1][2][p] = "B"
           /\ gs[2][1][q] = s /\ gs[2][2][q] = "G"

Letters == Range(LowerSeq)

\* C15 as stated: a letter has a max count only when some single guess held
\* both a confirmed and an Absent copy of it; after two guesses that hold s
\* once, Absent and then Correct elsewhere, s has min count 1 and no max count.
C15_Original ==
    Solved =>
        /\ \A l \in DictKeys(result.max_counts) :
               \E n \in 1..Len(guesses) :
                   HasConfirmed(guesses[n], l) /\ HasAbsent(guesses[n], l)
        /\ \A s \in Letters :
               AbsentThenCorrect(guesses, s) =>
                   /\ HasCount(result.min_counts, s, 1)
                   /\ ~DictHas(result.max_counts, s)

\* C15 amended: a letter has a max count exactly when some single guess held
\* an Absent copy of it, confirmed copies or not; after two guesses that hold
\* s once, Absent and then Correct elsewhere, s has min count 1 and max
\* count 0.
C15_MaxEntries ==
    Solved =>
        /\ \A l \in Letters :
               DictHas(result.max_counts, l) <=>
                   \E n \in 1..Len(guesses) : HasAbsent(guesses[n], l)
        /\ \A s \in Letters :
               AbsentThenCorrect(guesses, s) =>
                   /\ HasCount(result.min_counts, s, 1)
                   /\ HasCount(result.max_counts, s, 0)

\* C15 witness: crane with c Absent, then nacre with c Correct at another
\* position, were accumulated.
C15_Witness ==
    /\ result.status = "ok"
    /\ guesses = << <<crane, Fb("B", "Y", "G", "B", "Y")>>,
                    <<nacre, Fb("G", "G", "G", "G", "G")>> >>
    /\ AbsentThenCorrect(guesses, "c")
    /\ HasCount(result.min_counts, "c", 1)

\* C16 as stated: after any guesses, every letter with both a min count and
\* a max count has min count <= max count.
C16_Original ==
    Solved =>
        \A l \in DictKeys(result.min_counts) \cap DictKeys(result.max_counts) :
            DictGet(result.min_counts, l) <= DictGet(result.max_counts, l)

\* The feedback the game gives for the guess word against secret: Correct for
\* exact matches, Present for the remaining copies, left to right, up to the
\* secret's count of the letter, Absent otherwise.
GameFeedback(secret, word) ==
    [p \in 1..5 |->
        IF word[p] = secret[p] THEN "G"
        ELSE LET l == word[p]
                 exact == Cardinality({q \in 1..5 : word[q] = l /\ secret[q] = l})
                 before == Cardinality({q \in 1..(p - 1) :
                                           word[q] = l /\ secret[q] # l})
             IN  IF exact + before < Copies(secret, l) THEN "Y" ELSE "B"]

Secrets == {crane, heart, trace, react, nacre, caner, tenet, enter, couch, eerie}

\* Every guess of gs carries the feedback of the game for secret.
GenuineFor(secret, gs) ==
    \A n \in 1..Len(gs) : gs[n][2] = GameFeedback(secret, gs[n][1])

\* C16 amended: after guesses whose feedback is the genuine feedback of the
\* game for one secret word, every letter with both a min count and a max
\* count has min count <= max count.
C16_MinBelowMax ==
    (Solved /\ \E secret \in Secrets : GenuineFor(secret, guesses)) =>
        \A l \in DictKeys(result.min_counts) \cap DictKeys(result.max_counts) :
            DictGet(result.min_counts, l) <= DictGet(result.max_counts, l)

\* C16 witness: two different guesses with genuine feedback for one secret
\* were accumulated and gave a letter a min count and a max count.
C16_Witness ==
    /\ result.status = "ok"
    /\ Len(guesses) = 2
    /\ guesses[1][1] # guesses[2][1]
    /\ \E secret \in Secrets : GenuineFor(secret, guesses)
    /\ \E l \in DictKeys(result.min_counts) \cap DictKeys(result.max_counts) :
           DictGet(result.min_counts, l) >= 1

\* The four conditions of the filter on a 5-letter word w and constraints c.
GreensOk(w, c) ==
    \A i \in DictKeys(c.greens) : w[i + 1] = DictGet(c.greens, i)
YellowsOk(w, c) ==
    \A l \in DictKeys(c.yellows_not_pos) :
        /\ Copies(w, l) >= 1
        /\ \A i \in DictGet(c.yellows_not_pos, l) : w[i + 1] # l
MinOk(w, c) ==
    \A l \in DictKeys(c.min_counts) : Copies(w, l) >= DictGet(c.min_counts, l)
MaxOk(w, c) ==
    \A l \in DictKeys(c.max_counts) : Copies(w, l) <= DictGet(c.max_counts, l)

Satisfies(w, c) ==
    word_satisfies(w, c.greens, c.yellows_not_pos, c.min_counts, c.max_counts)

\* C17: for every 5-letter word and the constraints of the guesses, the
\* filter predicate returns True if and only if the word has every green
\* letter at its position, holds every letter with yellow bans and at none
\* of its banned positions, has at least the min count and at most the max
\* count of every letter that has one; otherwise it returns False.
C17_FilterPredicate ==
    Solved =>
        \A w \in Secrets :
            /\ Satisfies(w, result) \in {"True", "False"}
            /\ Satisfies(w, result) = "True" <=>
                   /\ GreensOk(w, result)
                   /\ YellowsOk(w, result)
                   /\ MinOk(w, result)
                   /\ MaxOk(w, result)

\* C17 witness: against the constraints of a guess one word passes all four
\* conditions, another fails only the yellow bans and a third only a max
\* count.
C17_Witness ==
    /\ result.status = "ok"
    /\ \E w \in Secrets : Satisfies(w, result) = "True"
    /\ \E w \in Secrets :
           /\ Satisfies(w, result) = "False"
           /\ GreensOk(w, result) /\ ~YellowsOk(w, result)
           /\ MinOk(w, result) /\ MaxOk(w, result)
    /\ \E w \in Secrets :
           /\ Satisfies(w, result) = "False"
           /\ GreensOk(w, result) /\ YellowsOk(w, result)
           /\ MinOk(w, result) /\ ~MaxOk(w, result)

\* The min count of letter l in constraints c, 0 when it has none.
MinOf(c, l) == IF DictHas(c.min_counts, l) THEN DictGet(c.min_counts, l) ELSE 0

\* The Correct/Present tallies of l in the guesses, and the bounds of the
\* guesses that hold more copies of l than they confirm.
Tallies(gs, l) == {Confirmed(gs[n][1], gs[n][2], l) : n \in 1..Len(gs)}
Bounds(gs, l) ==
    {Confirmed(gs[n][1], gs[n][2], l) :
        n \in {m \in 1..Len(gs) :
                  Confirmed(gs[m][1], gs[m][2], l) < Copies(gs[m][1], l)}}

Largest(S) == CHOOSE x \in S : \A y \in S : y <= x
Smallest(S) == CHOOSE x \in S : \A y \in S : x <= y

\* C18: against the constraints of every prefix of the guesses, the final
\* min count of each letter is no smaller (none counting as 0) and a max
\* count the prefix has is still there and no larger; the final min count is
\* the largest per-guess Correct/Present tally and the final max count the
\* smallest per-guess bound.
C18_OnlyTighten ==
    Solved =>
        /\ \A k \in 0..Len(guesses) :
               LET pre == accumulate_constraints(SubSeq(guesses, 1, k))
               IN  \A l \in Letters :
                       /\ MinOf(result, l) >= MinOf(pre, l)
                       /\ DictHas(pre.max_counts, l) =>
                              /\ DictHas(result.max_counts, l)
                              /\ DictGet(result.max_counts, l)
                                     <= DictGet(pre.max_counts, l)
        /\ \A l \in Letters :
               /\ MinOf(result, l) = Largest(Tallies(guesses, l) \cup {0})
               /\ DictHas(result.max_counts, l) <=> Bounds(guesses, l) # {}
               /\ DictHas(result.max_counts, l) =>
                      DictGet(result.max_counts, l) = Smallest(Bounds(guesses, l))

\* C18 witness: the second of two guesses raised a min count and lowered a
\* max count the first had set.
C18_Witness ==
    /\ result.status = "ok"
    /\ Len(guesses) = 2
    /\ LET pre == accumulate_constraints(SubSeq(guesses, 1, 1))
       IN  /\ \E l \in Letters : MinOf(result, l) > MinOf(pre, l)
           /\ \E l \in DictKeys(pre.max_counts) :
                  DictGet(result.max_counts, l) < DictGet(pre.max_counts, l)

\* The guesses of gs that mark position i (0-based) Correct.
CorrectAt(gs, i) == {n \in 1..Len(gs) : gs[n][2][i + 1] = "G"}

\* C20: after any guesses greens has an entry for position i if and only if
\* some guess marks i Correct; it has one entry per position, and the entry
\* is the letter of the last guess that marks i Correct, also when earlier
\* guesses marked another letter there; accumulating raises nothing.
C20_GreensLastWins ==
    Solved =>
        /\ result.status = "ok"
        /\ \A n, m \in 1..Len(result.greens) :
               result.greens[n][1] = result.greens[m][1] => n = m
        /\ DictKeys(result.greens) = {i \in 0..4 : CorrectAt(guesses, i) # {}}
        /\ \A i \in DictKeys(result.greens) :
               DictGet(result.greens, i) =
                   guesses[Largest(CorrectAt(guesses, i))][1][i + 1]

\* C20 witness: two guesses marked different letters Correct at position 0
\* and greens holds the letter of the second.
C20_Witness ==
    /\ result.status = "ok"
    /\ Len(guesses) = 2
    /\ guesses[1][2][1] = "G"
    /\ guesses[2][2][1] = "G"
    /\ guesses[1][1][1] = "c"
    /\ guesses[2][1][1] = "n"
    /\ DictGet(result.greens, 0) = "n"

(***************************************************************************)
(* The solver against the game: every request carries one more guess with  *)
(* the feedback the game gives for it against one secret word.             *)
(***************************************************************************)
Play(secret, w) ==
    /\ GenuineFor(secret, guesses)
    /\ Solve(<<w, GameFeedback(secret, w)>>)

NextGame == \E secret \in Secrets : \E w \in Secrets : Play(secret, w)

SpecGame == Init /\ [][NextGame]_vars

\* C21: for every secret whose genuine feedback the guesses carry, the secret
\* passes the filter against the constraints accumulated from every prefix
\* of the guesses, and it is among the candidates when the word list holds it.
C21_SecretSurvives ==
    Solved =>
        \A secret \in Secrets :
            GenuineFor(secret, guesses) =>
                /\ \A k \in 0..Len(guesses) :
                       Satisfies(secret,
                                 accumulate_constraints(SubSeq(guesses, 1, k)))
                           = "True"
                /\ Contains(words, secret) => Contains(result.candidates, secret)

\* C21 witness: two different guesses other than the secret, one with a
\* surplus copy of a letter the secret holds, cut the candidates down and the
\* secret is still among them.
C21_Witness ==
    /\ result.status = "ok"
    /\ Len(guesses) = 2
    /\ guesses[1][1] # guesses[2][1]
    /\ \E secret \in Secrets :
           /\ GenuineFor(secret, guesses)
           /\ \A n \in 1..2 : guesses[n][1] # secret
           /\ Contains(words, secret)
           /\ Contains(result.candidates, secret)
           /\ Len(result.candidates) < Len(words)
           /\ \E l \in Range(secret) :
                  /\ DictHas(result.max_counts, l)
                  /\ DictGet(result.max_counts, l) = Copies(secret, l)

(***************************************************************************)
(* Claims about the text extractor, checked under SpecText                 *)
(***************************************************************************)
\* parse_line returns a guess for the line.
ParsesAsGuess(l) ==
    LET r == parse_line(l) IN r.status = "ok" /\ r.value # None

\* The guesses of the lines that parse, in line order.
RECURSIVE GuessesOf(_)
GuessesOf(ls) ==
    IF ls = << >> THEN << >>
    ELSE IF ParsesAsGuess(ls[1]) THEN <<parse_line(ls[1]).value>> \o GuessesOf(Tail(ls))
    ELSE GuessesOf(Tail(ls))

\* C3: on a text none of whose lines parses as a guess, the extractor fails
\* with the "no valid guess lines" ValueError and with no other error.
C3_NoValidLines ==
    (extracted # NotCalled /\ GuessesOf(SplitLines(text)) = << >>) =>
        extracted.status = "ValueError"

\* C4: on a text with at least one line that parses as a guess, the extractor
\* returns the guesses of the parseable lines in line order, and no other
\* line makes it raise.
C4_SkipsOtherLines ==
    (extracted # NotCalled /\ GuessesOf(SplitLines(text)) # << >>) =>
        /\ extracted.status = "ok"
        /\ extracted.value = GuessesOf(SplitLines(text))

(***************************************************************************)
(* Claims about the line parser, checked under SpecLine                    *)
(***************************************************************************)
IsCode(ch) == ch \in {"G", "Y", "B", "g", "y", "b"}
StripsToWord(tok) == Len(strip_to_ascii_letters(tok)) = 5

\* C9: a line of exactly two tokens, five feedback codes in any case and a
\* token that strips to five letters, parses to (the word lower-cased, the
\* codes upper-cased).
C9_CompactShape ==
    LET toks == Split(line)
    IN  ( /\ parsed # NotCalled
          /\ Len(toks) = 2
          /\ Len(toks[1]) = 5
          /\ \A n \in 1..5 : IsCode(toks[1][n])
          /\ StripsToWord(toks[2]) ) =>
            parsed = [status |-> "ok",
                      value |-> <<strip_to_ascii_letters(toks[2]), Upper(toks[1])>>]

\* C10: a line of at least six tokens, the first five each one feedback code
\* in any case and the sixth a token that strips to five letters, parses to
\* (the word lower-cased, the five codes upper-cased in order).
C10_SpacedShape ==
    LET toks == Split(line)
    IN  ( /\ parsed # NotCalled
          /\ Len(toks) >= 6
          /\ \A n \in 1..5 : Len(toks[n]) = 1 /\ IsCode(toks[n][1])
          /\ StripsToWord(toks[6]) ) =>
            parsed = [status |-> "ok",
                      value |-> <<strip_to_ascii_letters(toks[6]),
                                  Upper(Flatten(SubSeq(toks, 1, 5)))>>]

\* The glyphs that stand for a feedback tile in a raw line.
TileGlyphs == Tiles \cup ALT_GRAY

\* A line made of a run of tile glyphs, white space, and letters, with white
\* space allowed among the glyphs and among the letters.
TileShaped(l) ==
    /\ \A n \in 1..Len(l) : l[n] \in TileGlyphs \/ IsSpace(l[n]) \/ IsAlpha(l[n])
    /\ \E j \in 1..Len(l) :
           /\ IsSpace(l[j])
           /\ \A n \in 1..(j - 1) : ~IsAlpha(l[n])
           /\ \A n \in (j + 1)..Len(l) : l[n] \notin TileGlyphs
           /\ \E n \in 1..(j - 1) : l[n] \in TileGlyphs
           /\ \E n \in (j + 1)..Len(l) : IsAlpha(l[n])

TileRun(l) == SelectSeq(l, LAMBDA ch : ch \in TileGlyphs)

\* Green is Correct, yellow is Present, every gray variant is Absent.
TileCode(ch) ==
    IF ch = EMOJI_GREEN THEN "G"
    ELSE IF ch = EMOJI_YELLOW THEN "Y"
    ELSE IF ch \in {EMOJI_GRAY} \cup ALT_GRAY THEN "B"
    ELSE "?"

\* What the claim says of a tile-shaped line that was parsed.
TileShapeHolds(l, p) ==
    LET valid == Len(TileRun(l)) = 5 /\ Len(strip_to_ascii_letters(l)) = 5
    IN  /\ (p.status = "ok" /\ p.value # None) <=> valid
        /\ valid =>
               p = [status |-> "ok",
                    value |-> <<Lower(NFKC(SelectSeq(l, IsAlpha))),
                                [n \in 1..5 |-> TileCode(TileRun(l)[n])]>>]

\* C11 as stated: a tile-shaped line parses to a guess if and only if it holds
\* exactly five tile glyphs and its letters strip to exactly five; the guess
\* is then the lower-cased letters and the codes of the tiles in order.
C11_Original ==
    (parsed # NotCalled /\ TileShaped(line)) => TileShapeHolds(line, parsed)

\* Every letter of the line is an ASCII letter once Unicode-normalised.
AsciiWord(l) ==
    \A n \in 1..Len(l) : IsAlpha(l[n]) => NFKC(<<l[n]>>)[1] \in AsciiLetters

\* C11 amended: a tile-shaped line whose letters are ASCII letters once
\* Unicode-normalised parses to a guess if and only if it holds exactly five
\* tile glyphs and exactly five letters; the guess is then the lower-cased
\* letters and the codes of the tiles in order, green as G, yellow as Y and
\* every gray variant as B.
C11_TileShape ==
    (parsed # NotCalled /\ TileShaped(line) /\ AsciiWord(line)) =>
        TileShapeHolds(line, parsed)

\* C11 witness: a line of five tiles with both other gray variants and a
\* styled word was parsed to a guess.
C11_Witness ==
    /\ TileShaped(line)
    /\ AsciiWord(line)
    /\ \E n \in 1..Len(line) : line[n] = "black-square"
    /\ \E n \in 1..Len(line) : line[n] \in DOMAIN Styled
    /\ parsed = [status |-> "ok",
                 value |-> <<crane, <<"B", "Y", "B", "G", "B">>>>]

(***************************************************************************)
(* Claims about the ranker, checked under SpecRank                         *)
(***************************************************************************)
\* The sum of the values of function f over the finite set S.
RECURSIVE SumOver(_, _)
SumOver(S, f) ==
    IF S = {} THEN 0
    ELSE LET x == CHOOSE y \in S : TRUE IN f[x] + SumOver(S \ {x}, f)

\* The candidates having letter l at position i, and the occurrences of l in
\* all the candidates.
AtPosition(ws, i, l) == Cardinality({n \in 1..Len(ws) : ws[n][i] = l})
Occurrences(ws, l) ==
    Cardinality({np \in (1..Len(ws)) \X (1..5) : ws[np[1]][np[2]] = l})

\* C19: the score of every candidate w is the sum over its positions of the
\* number of candidates with the same letter at that position, plus the sum
\* over its distinct letters of their occurrences in all the candidates, plus
\* 50 for each distinct vowel of w, minus 100 for each repeated letter of w.
C19_ScoreFormula ==
    scores # NotCalled =>
        /\ scores.status = "ok"
        /\ DictKeys(scores.scores) = Range(cands)
        /\ \A w \in Range(cands) :
               DictGet(scores.scores, w) =
                   SumOver(1..5, [i \in 1..5 |-> AtPosition(cands, i, w[i])])
                   + SumOver(Range(w), [l \in Range(w) |-> Occurrences(cands, l)])
                   + 50 * Cardinality(Range(w) \cap {"a", "e", "i", "o", "u"})
                   - 100 * (Len(w) - Cardinality(Range(w)))

\* C19 witness: two candidates with repeated letters were scored.
C19_Witness ==
    /\ cands = <<tenet, enter>>
    /\ scores.status = "ok"
    /\ DictGet(scores.scores, tenet) = -135
    /\ DictGet(scores.scores, enter) = -34

\* C7: for a non-empty word list rank_words returns each input word paired
\* with its score, by descending score and, at equal scores, in ascending
\* lexicographic order of the words.
C7_RankSorted ==
    (ranked # NotCalled /\ cands # << >>) =>
        /\ ranked.status = "ok"
        /\ Len(ranked.value) = Len(cands)
        /\ \E p \in Permutations(1..Len(cands)) :
               \A n \in 1..Len(cands) :
                   ranked.value[n] =
                       <<cands[p[n]],
                         DictGet(intelligent_scores(cands).scores, cands[p[n]])>>
        /\ \A n \in 1..(Len(cands) - 1) :
               \/ ranked.value[n][2] > ranked.value[n + 1][2]
               \/ /\ ranked.value[n][2] = ranked.value[n + 1][2]
                  /\ ~StrLess(ranked.value[n + 1][1], ranked.value[n][1])

\* C8: ranking an empty word list returns an empty list and raises nothing.
C8_RankEmpty ==
    (ranked # NotCalled /\ cands = << >>) =>
        ranked = [status |-> "ok", value |-> << >>]

\* C8 witness: rank_words was called on the empty list.
C8_Witness == ranked # NotCalled /\ cands = << >>

(***************************************************************************)
(* Claims about loading and reloading, checked under SpecReload            *)
(***************************************************************************)
\* C12: the word list a load leaves in the solver is the sanitization of the
\* raw lines read: each line stripped of its non-alphabetic characters and
\* lower-cased, kept in load order if and only if that has five letters.
C12_LoadedIsSanitized ==
    reload.pc = "idle" => heap[solver] = sanitize_word_list(reload.raw)

\* The lists a load can build: what __init__ keeps of the lines of a file.
CompleteLists == {WordleSolver_init(ReadLines(f)) : f \in FilePool}

\* C13: a handler reading solver.words holds, from the start of the read to
\* its end, one list that was complete when the read began and is never
\* changed under it, whatever a reload does meanwhile: the words read so far
\* are the front of that list and a finished read has seen the whole of it.
C13_ReloadAtomic ==
    \A r \in Readers :
        LET me == readers[r]
        IN  me.pc # "idle" =>
                /\ me.old \in CompleteLists
                /\ heap[me.obj] = me.old
                /\ me.seen = SubSeq(me.old, 1, me.n - 1)
                /\ me.pc = "done" => me.seen = me.old

\* C13 witness: a reload bound a different list while one handler was
\* reading; that handler saw the whole old list and another the whole new one.
C13_Witness ==
    \E r, q \in Readers :
        /\ readers[r].pc = "done"
        /\ readers[r].obj # solver
        /\ readers[r].seen # << >>
        /\ readers[r].seen # heap[solver]
        /\ readers[q].pc = "done"
        /\ readers[q].obj = solver
        /\ readers[q].seen = heap[solver]

====
